---- MODULE Spec2Model ----
(***************************************************************************)
(* discord/scheduled_event.py: the ScheduledEvent proxy (hydration, edit,  *)
(* start/end/cancel, delete) and the users() batch traversal.              *)
(*                                                                         *)
(* Conventions.  An Optional value is None (the empty tuple) or Some(v)    *)
(* (a one-element tuple).  A slot of __slots__ that was never assigned is  *)
(* Unset.  Keyword arguments whose default is MISSING are modelled by a    *)
(* function from the names of the SUPPLIED arguments to their values: an   *)
(* argument "is MISSING" exactly when its name is not in the domain.       *)
(* Server payloads are functions from the keys present to their values;    *)
(* nullable and optional keys hold Optional values.  The audit-log         *)
(* `reason` string is passed through untouched by every call and is left   *)
(* out.  User ids in subscription records are integers: users() compares   *)
(* them with cursor ids without converting them.                           *)
(***************************************************************************)
EXTENDS Integers, Sequences, FiniteSets, TLC

VARIABLES ev, ret, last, caches, gen, server, gen2

vars == <<ev, ret, last, caches, gen, server, gen2>>

\* ------------------------------------------------------------------ bounds
\* At most this many keyword arguments are supplied to one edit() call.
MaxSupplied == 3

\* ------------------------------------------------------------- basic values
None == <<>>
Some(v) == <<v>>
Unset == <<"unset", "slot">>
EmptyDict == <<>>

\* dict.get(key, default)
Get(data, key, default) == IF key \in DOMAIN data THEN data[key] ELSE default

\* ------------------------------------------------------------------- enums
\* discord/enums.py: the raw code of every member.
EnumValues ==
    [EventStatus |-> [scheduled |-> 1, active |-> 2, completed |-> 3, cancelled |-> 4],
     EntityType |-> [stage_instance |-> 1, voice |-> 2, external |-> 3],
     PrivacyLevel |-> [public |-> 1, guild_only |-> 2]]

Member(cls, name) == [cls |-> cls, name |-> name]
Members(cls) == {Member(cls, n) : n \in DOMAIN EnumValues[cls]}

\* member.value
EnumValue(m) == EnumValues[m.cls][m.name]

\* try_enum(cls, val): the member with that code, else a proxy for an unknown code
try_enum(cls, val) ==
    IF \E n \in DOMAIN EnumValues[cls] : EnumValues[cls][n] = val
    THEN Member(cls, CHOOSE n \in DOMAIN EnumValues[cls] : EnumValues[cls][n] = val)
    ELSE Member(cls, "unknown")

isinstance(x, cls) == x.cls = cls

EventStatus_scheduled == Member("EventStatus", "scheduled")
EventStatus_active == Member("EventStatus", "active")
EventStatus_completed == Member("EventStatus", "completed")
EventStatus_cancelled == Member("EventStatus", "cancelled")
\* EventStatus.ended is the alias of EventStatus.completed
EventStatus_ended == EventStatus_completed
EntityType_stage_instance == Member("EntityType", "stage_instance")
EntityType_voice == Member("EntityType", "voice")
EntityType_external == Member("EntityType", "external")

\* ------------------------------------------------------------- conversions
\* A datetime is [ts, tzinfo]; tzinfo is None for a naive datetime.
Naive(t) == [ts |-> t, tzinfo |-> None]
Aware(t) == [ts |-> t, tzinfo |-> Some("UTC")]

\* datetime.isoformat(): the timestamp text, with the offset when aware
isoformat(d) == [iso |-> d.ts, offset |-> d.tzinfo]

\* utils.parse_time: None stays None, an ISO text becomes an aware datetime
parse_time(t) == IF t = None THEN None ELSE Some(Aware(t[1].iso))

\* raw snowflakes of payloads are decimal strings
SnowflakeRange == 0..9
int(s) == CHOOSE i \in SnowflakeRange : ToString(i) = s

\* utils._get_as_snowflake(data, key)
get_as_snowflake(data, key) ==
    LET value == Get(data, key, None)
    IN  IF value = None THEN None ELSE Some(int(value[1]))

\* utils._bytes_to_base64_data(image)
bytes_to_base64_data(image) == <<"data:image/png;base64", image>>

\* ---------------------------------------------------------- server payloads
\* A payload the server sends for a scheduled event (GuildScheduledEvent):
\* voice and stage events carry a channel_id and a null entity_metadata,
\* external events a null channel_id and entity_metadata.location.
\* `full` adds the optional keys description, user_count, scheduled_end_time.
Payload(etype, status, privacy, count, full) ==
    LET hasChannel == etype \in {EntityType_stage_instance, EntityType_voice}
        required ==
            [id |-> "5", guild_id |-> "1", name |-> "event",
             entity_type |-> EnumValue(etype),
             scheduled_start_time |-> Some(isoformat(Aware(1))),
             privacy_level |-> EnumValue(privacy),
             status |-> EnumValue(status),
             image |-> None,
             channel_id |-> IF hasChannel THEN Some("7") ELSE None,
             entity_metadata |->
                 IF hasChannel THEN None ELSE Some([location |-> Some("somewhere")])]
        optional ==
            [description |-> "text", user_count |-> count,
             scheduled_end_time |-> Some(isoformat(Aware(2)))]
    IN  IF full THEN required @@ optional ELSE required

ValidPayloads ==
    {Payload(t, s, p, 2, f) : t \in Members("EntityType"), s \in Members("EventStatus"),
                              p \in Members("PrivacyLevel"), f \in BOOLEAN}

\* The payloads the transport answers an update request with.
EditResponses ==
    {Payload(t, s, Member("PrivacyLevel", "guild_only"), 2, TRUE) :
        t \in Members("EntityType"), s \in Members("EventStatus")}

\* ------------------------------------------------------------ the proxy
\* An instance whose slots are all unassigned.
Blank ==
    [id |-> Unset, guild_id |-> Unset, name |-> Unset, description |-> Unset,
     entity_type |-> Unset, entity_id |-> Unset, start_time |-> Unset,
     end_time |-> Unset, privacy_level |-> Unset, status |-> Unset,
     cover_image |-> Unset, user_count |-> Unset, channel_id |-> Unset,
     location |-> Unset, users |-> Unset]

\* ScheduledEvent._unroll_metadata
unroll_metadata(self, data) == [self EXCEPT !.location = Get(data, "location", None)]

\* ScheduledEvent._update
update(self, data) ==
    LET s == [self EXCEPT
                 !.id = int(data["id"]),
                 !.guild_id = int(data["guild_id"]),
                 !.name = data["name"],
                 !.description = Get(data, "description", ""),
                 !.entity_type = try_enum("EntityType", data["entity_type"]),
                 !.entity_id = int(data["id"]),
                 !.start_time = parse_time(data["scheduled_start_time"]),
                 !.privacy_level = try_enum("PrivacyLevel", data["status"]),
                 !.status = try_enum("EventStatus", data["status"]),
                 !.cover_image = data["image"],
                 !.user_count = Get(data, "user_count", 0),
                 !.end_time = parse_time(Get(data, "scheduled_end_time", None)),
                 !.channel_id = get_as_snowflake(data, "channel_id")]
        metadata == Get(data, "metadata", None)
    IN  IF metadata # None /\ DOMAIN metadata[1] # {}
        THEN unroll_metadata(s, metadata[1])
        ELSE s

\* ScheduledEvent.__init__: `ref` is the fresh dict allocated for _users
init(ref, data) == update([Blank EXCEPT !.users = ref], data)

\* ------------------------------------------------------ the cache of users
\* A user object of the live-update layer.
User(id) == [id |-> id]

\* ScheduledEvent._add_user: self._users[user.id] = user
add_user(cache, user) == (user.id :> user) @@ cache

\* ScheduledEvent._pop_user: self._users.pop(user_id); dict.pop without a
\* default raises KeyError when the key is absent.
pop_user(cache, user_id) ==
    IF user_id \in DOMAIN cache
    THEN [error |-> "none", cache |-> [k \in DOMAIN cache \ {user_id} |-> cache[k]]]
    ELSE [error |-> "KeyError", cache |-> cache]

\* ------------------------------------------------------- arguments of edit
ArgNames ==
    {"name", "description", "channel", "start_time", "end_time", "privacy_level",
     "entity_type", "status", "image", "location"}

\* A Snowflake the caller passes as channel.
Channel == [id |-> 7]

\* The values a caller may supply for each argument; the last value of the
\* three enum arguments is a raw code, not a member of the enumeration.
ArgValues ==
    [name |-> {"renamed"},
     description |-> {"described"},
     channel |-> {None, Some(Channel)},
     start_time |-> {Naive(3), Aware(3)},
     end_time |-> {Naive(4), Aware(4)},
     privacy_level |-> {Member("PrivacyLevel", "guild_only"), Member("int", "2")},
     entity_type |-> Members("EntityType") \cup {Member("int", "3")},
     status |-> Members("EventStatus") \cup {Member("int", "2")},
     image |-> {"PNG"},
     location |-> {None, Some("elsewhere")}]

RECURSIVE ArgsOver(_)
ArgsOver(names) ==
    IF names = {} THEN {<<>>}
    ELSE LET k == CHOOSE k \in names : TRUE
         IN  {(k :> v) @@ rest : v \in ArgValues[k], rest \in ArgsOver(names \ {k})}

EditArgs ==
    UNION {ArgsOver(S) : S \in {T \in SUBSET ArgNames : Cardinality(T) <= MaxSupplied}}

\* --------------------------------------------------------------- edit
Raise(kind) == [error |-> kind, payload |-> <<>>]
Pass(payload) == [error |-> "none", payload |-> payload]

\* payload[key] = value when cond, nothing otherwise
Item(cond, key, value) == IF cond THEN key :> value ELSE <<>>

\* _entity_type = entity_type or self.entity_type
EffectiveEntityType_CurrentOnly(self, a) == self.entity_type

EffectiveEntityType(self, a) ==
    IF "entity_type" \in DOMAIN a THEN a["entity_type"] ELSE self.entity_type

\* ScheduledEvent.edit, up to the transport call: the error raised, or the
\* keyword arguments handed to http.edit_scheduled_event.
EditPayload(self, a) ==
    LET has(k) == k \in DOMAIN a
        common ==
            Item(has("name"), "name", a["name"])
            @@ Item(has("start_time"), "scheduled_start_time", isoformat(a["start_time"]))
            @@ Item(has("description"), "description", a["description"])
            @@ Item(has("privacy_level"), "privacy_level", EnumValue(a["privacy_level"]))
            @@ Item(has("status"), "status", EnumValue(a["status"]))
            @@ Item(has("image"), "image", bytes_to_base64_data(a["image"]))
            @@ Item(has("entity_type"), "entity_type", EnumValue(a["entity_type"]))
        entity_type == EffectiveEntityType(self, a)
    IN  IF has("start_time") /\ a["start_time"].tzinfo = None THEN Raise("ValueError")
        ELSE IF has("privacy_level") /\ ~isinstance(a["privacy_level"], "PrivacyLevel")
        THEN Raise("TypeError")
        ELSE IF has("status") /\ ~isinstance(a["status"], "EventStatus")
        THEN Raise("TypeError")
        ELSE IF has("entity_type") /\ ~isinstance(a["entity_type"], "EntityType")
        THEN Raise("TypeError")
        ELSE IF entity_type \in {EntityType_stage_instance, EntityType_voice}
        THEN IF ~has("channel") \/ a["channel"] = None THEN Raise("TypeError")
             ELSE IF has("location") THEN Raise("TypeError")
             ELSE Pass(common @@ ("channel_id" :> a["channel"][1].id))
        ELSE IF has("channel") THEN Raise("TypeError")
             ELSE IF ~has("location") \/ a["location"] = None THEN Raise("TypeError")
             ELSE IF ~has("end_time") THEN Raise("TypeError")
             ELSE IF a["end_time"].tzinfo = None THEN Raise("ValueError")
             ELSE Pass(common
                       @@ ("scheduled_end_time" :> isoformat(a["end_time"]))
                       @@ ("entity_metadata" :> [location |-> a["location"][1]]))

\* What the transport does with a request: raise (None) or answer a payload.
TransportAnswers == {None} \cup {Some(p) : p \in EditResponses}

\* The dicts the proxies' _users refer to, by reference.
Refs == {1, 2}
FreshRef(self) == CHOOSE r \in Refs : r # self.users

\* The outcome of one call on a proxy: the error raised ("none" when it
\* returned), the arguments edit was entered with (None when edit was not
\* reached), the transport requests issued, the answer of the transport and
\* the proxy returned.
Outcome(error, args, requests, data, result) ==
    [error |-> error, args |-> args, requests |-> requests, data |-> data,
     result |-> result]

EditRequest(self, payload) ==
    [route |-> "edit_scheduled_event", guild_id |-> self.guild_id, id |-> self.id,
     payload |-> payload]

edit_OwnCache(self, a, answer) ==
    LET built == EditPayload(self, a)
        request == EditRequest(self, built.payload)
    IN  IF built.error # "none"
        THEN Outcome(built.error, Some(a), <<>>, None, None)
        ELSE IF answer = None
        THEN Outcome("HTTPException", Some(a), <<request>>, None, None)
        ELSE Outcome("none", Some(a), <<request>>, answer,
                     Some(init(FreshRef(self), answer[1])))

\* ScheduledEvent.edit
edit(self, a, answer) ==
    LET built == EditPayload(self, a)
        request == EditRequest(self, built.payload)
    IN  IF built.error # "none"
        THEN Outcome(built.error, Some(a), <<>>, None, None)
        ELSE IF answer = None
        THEN Outcome("HTTPException", Some(a), <<request>>, None, None)
        ELSE LET s == init(FreshRef(self), answer[1])
             IN  Outcome("none", Some(a), <<request>>, answer,
                         Some([s EXCEPT !.users = self.users]))

start_GuardOnCompleted(self, answer) ==
    IF self.status = EventStatus_completed
    THEN Outcome("ValueError", None, <<>>, None, None)
    ELSE edit(self, [status |-> EventStatus_active], answer)

\* ScheduledEvent.start
start(self, answer) ==
    IF self.status # EventStatus_scheduled
    THEN Outcome("ValueError", None, <<>>, None, None)
    ELSE edit(self, [status |-> EventStatus_active], answer)

end_AsksCancelled(self, answer) ==
    IF self.status # EventStatus_active
    THEN Outcome("ValueError", None, <<>>, None, None)
    ELSE edit(self, [status |-> EventStatus_cancelled], answer)

\* ScheduledEvent.end
end(self, answer) ==
    IF self.status # EventStatus_active
    THEN Outcome("ValueError", None, <<>>, None, None)
    ELSE edit(self, [status |-> EventStatus_ended], answer)

\* ScheduledEvent.cancel
cancel(self, answer) ==
    IF self.status # EventStatus_scheduled
    THEN Outcome("ValueError", None, <<>>, None, None)
    ELSE edit(self, [status |-> EventStatus_cancelled], answer)

\* ScheduledEvent.delete
delete(self, answer) ==
    LET request == [route |-> "delete_scheduled_event", guild_id |-> self.guild_id,
                    id |-> self.id]
    IN  IF answer = None
        THEN Outcome("HTTPException", None, <<request>>, None, None)
        ELSE Outcome("none", None, <<request>>, None, None)

\* ------------------------------------------------------------------ state
\* ev      the proxy the caller holds
\* ret     the proxy returned by the call that just completed (None if none)
\* last    the call that just completed: its name and Outcome; op = "idle"
\*         between calls
\* caches  the _users dicts, by reference
\* gen     the frame of the users() generator
\* server  the subscription records the transport serves
Idle == [op |-> "idle"] @@ Outcome("none", None, <<>>, None, None)
Done(op, outcome) == [op |-> op] @@ outcome

NoGen == [pc |-> "none"]
NoServer == [mode |-> "none"]

Init ==
    /\ \E data \in ValidPayloads :
          /\ ev = init(1, data)
          /\ last = Done("__init__", Outcome("none", None, <<>>, Some(data), None))
    /\ ret = None
    /\ caches = [r \in Refs |-> EmptyDict]
    /\ gen = NoGen
    /\ gen2 = NoGen
    /\ server = NoServer

Completes_WritesThrough(op, outcome) ==
    /\ last' = Done(op, outcome)
    /\ ret' = outcome.result
    /\ caches' = IF outcome.result = None THEN caches
                 ELSE [caches EXCEPT ![FreshRef(ev)] = EmptyDict]
    /\ ev' = IF /\ outcome.args # None
                /\ "channel" \in DOMAIN outcome.args[1]
                /\ outcome.args[1]["channel"] # None
             THEN [ev EXCEPT !.channel_id = Some(outcome.args[1]["channel"][1].id)]
             ELSE ev
    /\ UNCHANGED <<gen, server, gen2>>

\* A call that returns a proxy: the receiver is left alone, a fresh dict is
\* allocated for the new instance before its _users is overwritten.
Completes(op, outcome) ==
    /\ last' = Done(op, outcome)
    /\ ret' = outcome.result
    /\ caches' = IF outcome.result = None THEN caches
                 ELSE [caches EXCEPT ![FreshRef(ev)] = EmptyDict]
    /\ UNCHANGED <<ev, gen, server, gen2>>

\* The live-update layer re-hydrates the proxy in place.
HydrateFrom(payloads) ==
    /\ last.op = "idle"
    /\ \E data \in payloads :
          /\ ev' = update(ev, data)
          /\ last' = Done("_update", Outcome("none", None, <<>>, Some(data), None))
    /\ UNCHANGED <<ret, caches, gen, server, gen2>>

EditWith(arguments, answers) ==
    /\ last.op = "idle"
    /\ \E a \in arguments, answer \in answers : Completes("edit", edit(ev, a, answer))

StartWith(answers) ==
    /\ last.op = "idle"
    /\ \E answer \in answers : Completes("start", start(ev, answer))

EndWith(answers) ==
    /\ last.op = "idle"
    /\ \E answer \in answers : Completes("end", end(ev, answer))

CancelWith(answers) ==
    /\ last.op = "idle"
    /\ \E answer \in answers : Completes("cancel", cancel(ev, answer))

Hydrate == HydrateFrom(ValidPayloads)
Edit == EditWith(EditArgs, TransportAnswers)
Start == StartWith(TransportAnswers)
End == EndWith(TransportAnswers)
Cancel == CancelWith(TransportAnswers)

Delete ==
    /\ last.op = "idle"
    /\ \E answer \in {None, Some(<<>>)} : Completes("delete", delete(ev, answer))

\* The caller goes on after a call: it drops the result ...
Drop ==
    /\ last.op # "idle"
    /\ last' = Idle
    /\ ret' = None
    /\ UNCHANGED <<ev, caches, gen, server, gen2>>

\* ... or keeps the returned proxy in place of the receiver
\* (event = await event.edit(...)).
Keep ==
    /\ last.op # "idle"
    /\ ret # None
    /\ ev' = ret[1]
    /\ last' = Idle
    /\ ret' = None
    /\ UNCHANGED <<caches, gen, server, gen2>>

Next == Hydrate \/ Edit \/ Start \/ End \/ Cancel \/ Delete \/ Drop \/ Keep

Spec == Init /\ [][Next]_vars

\* ============================================================== users()
\* --------------------------------------------------------------- bounds
\* User ids a scripted batch may hold, and the longest scripted short batch.
MaxId == 3
MaxShort == 2
\* The most full batches the transport serves before the short one.
MaxPages == 2

\* min(100 if limit is None else limit, 100)
MaxRetrieve == 100
\* if len(data) < 100: limit = 0
FullBatch == 100

Min(a, b) == IF a < b THEN a ELSE b

Reversed_AsIs(seq) == seq

\* reversed(data)
Reversed(seq) == [i \in 1..Len(seq) |-> seq[Len(seq) + 1 - i]]

\* discord.Object(id=...), and object.OLDEST_OBJECT
Object(id) == [id |-> id]
OLDEST_OBJECT == Object(0)

\* One subscription record of a batch.
Record(id) == [user |-> [id |-> id]]
\* state.store_user(raw_user['user'])
store_user(raw) == [id |-> raw.id]

\* ---------------------------------------------------------- the transport
\* The transport serves a script: its n-th answer to get_scheduled_event_users
\* is the n-th batch, and an empty batch once the script is over.  A rogue
\* script is one short batch of arbitrary records; a paged script is k full
\* batches followed by a short one, whatever limit is asked for.
RECURSIVE SeqsUpTo(_, _)
SeqsUpTo(S, n) ==
    IF n = 0 THEN {<<>>}
    ELSE SeqsUpTo(S, n - 1)
         \cup {Append(q, x) : q \in {r \in SeqsUpTo(S, n - 1) : Len(r) = n - 1}, x \in S}

Page(j, n) == [i \in 1..n |-> Record((j - 1) * FullBatch + i)]
ShortSizes == {0, 37}

RogueScripts == {<<batch>> : batch \in SeqsUpTo({Record(i) : i \in 1..MaxId}, MaxShort)}
PagedScripts ==
    {[j \in 1..(k + 1) |-> IF j <= k THEN Page(j, FullBatch) ELSE Page(j, n)] :
        k \in 0..MaxPages, n \in ShortSizes}
Servers == {[mode |-> "script", batches |-> b] : b \in RogueScripts \cup PagedScripts}

\* A cursor transport holds the fixed subscriber set 1..count and honours the
\* exclusive cursor and the limit of each request: asked `before`, it answers
\* with the `limit` highest ids below the cursor; asked `after`, with the
\* `limit` lowest ids above it.  It lists a batch newest first ("desc", the
\* order in which the last record of a backward batch and the first record of
\* a forward batch are the farthest along the traversal) or oldest first
\* ("asc").
Max(a, b) == IF a > b THEN a ELSE b

Window(srv, request) ==
    IF "before" \in DOMAIN request
    THEN LET hi == IF request.before = None THEN srv.count
                   ELSE Min(srv.count, request.before[1] - 1)
         IN  [lo |-> Max(1, hi - request.limit + 1), hi |-> hi]
    ELSE LET lo == IF request.after = None THEN 1
                   ELSE Max(1, request.after[1] + 1)
         IN  [lo |-> lo, hi |-> Min(srv.count, lo + request.limit - 1)]

Answer(srv, request) ==
    LET w == Window(srv, request)
        n == IF w.hi < w.lo THEN 0 ELSE w.hi - w.lo + 1
    IN  [i \in 1..n |->
            Record(IF srv.order = "desc" THEN w.hi - i + 1 ELSE w.lo + i - 1)]

SubscriberCounts == {0, MaxId, FullBatch + 1, MaxPages * FullBatch + 5}
CursorServers ==
    {[mode |-> "cursor", count |-> c, order |-> "desc"] : c \in SubscriberCounts}
    \cup {[mode |-> "cursor", count |-> c, order |-> "asc"] :
              c \in {MaxId, FullBatch + 1}}

\* http.get_scheduled_event_users: the answer to the n-th request
Fetch(srv, n, request) ==
    IF srv.mode = "cursor" THEN Answer(srv, request)
    ELSE IF n <= Len(srv.batches) THEN srv.batches[n] ELSE <<>>

\* ------------------------------------------------------ arguments of users
UsersArgs ==
    {[limit |-> l, before |-> b, after |-> a] @@ o :
        l \in {None, Some(0), Some(2), Some(101)},
        b \in {None, Some(Object(2))},
        a \in {None, Some(OLDEST_OBJECT), Some(Object(1))},
        o \in {<<>>, [oldest_first |-> TRUE], [oldest_first |-> FALSE]}}

\* ------------------------------------------------------------ the generator
\* if limit is None: limit = self.user_count or None
EffectiveLimit(self, a) ==
    IF a.limit = None
    THEN IF self.user_count # 0 THEN Some(self.user_count) ELSE None
    ELSE a.limit

Reverse_BeforePresence(a) ==
    IF "oldest_first" \notin DOMAIN a THEN a.before # None ELSE a["oldest_first"]

\* reverse: after is not None when oldest_first is MISSING, else oldest_first
Reverse(a) ==
    IF "oldest_first" \notin DOMAIN a THEN a.after # None ELSE a["oldest_first"]

PredicateOf_Never(a, reverse) == "none"

\* predicate: which client-side filter the traversal applies
PredicateOf(a, reverse) ==
    IF reverse
    THEN IF a.before # None THEN "lt_before" ELSE "none"
    ELSE IF a.after # None /\ a.after[1] # OLDEST_OBJECT THEN "gt_after" ELSE "none"

\* the two lambdas
Keeps(g, u) ==
    CASE g.predicate = "lt_before" -> u.user.id < g.before[1].id
      [] g.predicate = "gt_after" -> u.user.id > g.after[1].id
      [] OTHER -> TRUE

Retrieve_WholePages(limit) ==
    IF limit = None \/ limit[1] >= 1 THEN MaxRetrieve ELSE 0

\* retrieve = min(100 if limit is None else limit, 100)
Retrieve(limit) == Min(IF limit = None THEN MaxRetrieve ELSE limit[1], MaxRetrieve)

Advance_OnlyGivenCursor(users, cursor, limit, pick) ==
    IF users # <<>>
    THEN [state |-> IF cursor # None THEN Some(Object(users[pick].user.id)) ELSE cursor,
          limit |-> IF limit # None THEN Some(limit[1] - Len(users)) ELSE limit]
    ELSE [state |-> cursor, limit |-> limit]

Advance_PickFirst(users, cursor, limit, pick) ==
    IF users # <<>>
    THEN [state |-> Some(Object(users[1].user.id)),
          limit |-> IF limit # None THEN Some(limit[1] - Len(users)) ELSE limit]
    ELSE [state |-> cursor, limit |-> limit]

\* _before_strategy / _after_strategy: the request, the batch, the new cursor
\* and the remaining limit.  `n` numbers the request.
Advance(users, cursor, limit, pick) ==
    IF users # <<>>
    THEN [state |-> Some(Object(users[pick].user.id)),
          limit |-> IF limit # None THEN Some(limit[1] - Len(users)) ELSE limit]
    ELSE [state |-> cursor, limit |-> limit]

before_strategy(srv, n, retrieve, before, limit) ==
    LET before_id == IF before # None THEN Some(before[1].id) ELSE None
        request == [limit |-> retrieve, with_member |-> FALSE, before |-> before_id]
        users == Fetch(srv, n, request)
    IN  [request |-> request, users |-> users]
        @@ Advance(users, before, limit, Len(users))

after_strategy(srv, n, retrieve, after, limit) ==
    LET after_id == IF after # None THEN Some(after[1].id) ELSE None
        request == [limit |-> retrieve, with_member |-> FALSE, after |-> after_id]
        users == Fetch(srv, n, request)
    IN  [request |-> request, users |-> users]
        @@ Advance(users, after, limit, 1)

AfterBatch_FullIsLast(data, limit) == IF Len(data) <= FullBatch THEN Some(0) ELSE limit

\* if len(data) < 100: limit = 0
AfterBatch(data, limit) == IF Len(data) < FullBatch THEN Some(0) ELSE limit

\* The frame of users() once its body has started: the lines before the loop.
Prologue(self, a) ==
    LET reverse == Reverse(a)
    IN  [pc |-> "running", args |-> a, before |-> a.before, after |-> a.after,
         limit |-> EffectiveLimit(self, a), reverse |-> reverse,
         predicate |-> PredicateOf(a, reverse),
         state |-> IF reverse THEN a.after ELSE a.before,
         data |-> <<>>, requests |-> <<>>, yielded |-> <<>>]

\* The body of users() from where it stands to its next yield or its return.
RECURSIVE Resume(_, _)
Resume(g, srv) ==
    IF g.data # <<>>
    THEN [g EXCEPT !.pc = "suspended",
                   !.yielded = Append(@, store_user(Head(g.data).user)),
                   !.data = Tail(@)]
    ELSE LET retrieve == Retrieve(g.limit)
             n == Len(g.requests) + 1
             got == IF g.reverse
                    THEN after_strategy(srv, n, retrieve, g.state, g.limit)
                    ELSE before_strategy(srv, n, retrieve, g.state, g.limit)
             ordered == IF g.reverse THEN Reversed(got.users) ELSE got.users
             kept == SelectSeq(ordered, LAMBDA u : Keeps(g, u))
         IN  IF retrieve < 1
             THEN [g EXCEPT !.pc = "done"]
             ELSE Resume([g EXCEPT !.state = got.state,
                                   !.limit = AfterBatch(got.users, got.limit),
                                   !.data = kept,
                                   !.requests = Append(@, got.request)],
                         srv)

\* ScheduledEvent.users: calling it only creates the generator
Created(a) == [pc |-> "created", args |-> a]

anext_Prefetch(self, g, srv) ==
    LET r == IF g.pc = "created" THEN Resume(Prologue(self, g.args), srv)
             ELSE Resume(g, srv)
        n == Resume(r, srv)
    IN  IF r.pc = "suspended" /\ r.data = <<>>
        THEN IF n.pc = "done"
             THEN [r EXCEPT !.requests = n.requests, !.limit = Some(0)]
             ELSE [n EXCEPT !.yielded = r.yielded,
                            !.data = <<Record(n.yielded[Len(n.yielded)].id)>> \o @]
        ELSE r

\* One __anext__ of the generator.
anext(self, g, srv) ==
    IF g.pc = "created" THEN Resume(Prologue(self, g.args), srv) ELSE Resume(g, srv)

\* -------------------------------------------------------------- actions
UsersInit ==
    /\ \E count \in {0, 50, 150} :
          ev = init(1, Payload(EntityType_voice, EventStatus_active,
                               Member("PrivacyLevel", "guild_only"), count, TRUE))
    /\ last = Idle
    /\ ret = None
    /\ caches = [r \in Refs |-> EmptyDict]
    /\ gen = NoGen
    /\ gen2 = NoGen
    /\ server \in Servers

UsersWith(arguments) ==
    /\ gen.pc \in {"none", "done", "closed"}
    /\ \E a \in arguments : gen' = Created(a)
    /\ UNCHANGED <<ev, ret, last, caches, server, gen2>>

Users == UsersWith(UsersArgs)

Anext_StoresYielded ==
    /\ gen.pc \in {"created", "suspended"}
    /\ gen' = anext(ev, gen, server)
    /\ caches' = IF gen'.pc = "suspended"
                 THEN [caches EXCEPT
                          ![ev.users] = add_user(@, gen'.yielded[Len(gen'.yielded)])]
                 ELSE caches
    /\ UNCHANGED <<ev, ret, last, server, gen2>>

Anext ==
    /\ gen.pc \in {"created", "suspended"}
    /\ gen' = anext(ev, gen, server)
    /\ UNCHANGED <<ev, ret, last, caches, server, gen2>>

UsersNext == Users \/ Anext

SpecUsers == UsersInit /\ [][UsersNext]_vars

\* --------------------------------------- traversals of a cursor transport
\* The caller abandons the generator (aclose, or dropping the last reference):
\* the frame is gone and the body never runs again.  What the traversal asked
\* of the transport stays on record.
Requests(g) == IF "requests" \in DOMAIN g THEN g.requests ELSE <<>>
Closed(g) == [pc |-> "closed", args |-> g.args, requests |-> Requests(g)]

TraverseInit ==
    /\ \E count \in {0, MaxId - 1, FullBatch + 50} :
          ev = init(1, Payload(EntityType_voice, EventStatus_active,
                               Member("PrivacyLevel", "guild_only"), count, TRUE))
    /\ last = Idle
    /\ ret = None
    /\ caches = [r \in Refs |-> EmptyDict]
    /\ gen = NoGen
    /\ gen2 = NoGen
    /\ server \in CursorServers

Aclose ==
    /\ gen.pc \in {"created", "suspended"}
    /\ gen' = Closed(gen)
    /\ UNCHANGED <<ev, ret, last, caches, server, gen2>>

TraverseNext == Users \/ Anext \/ Aclose

SpecTraverse == TraverseInit /\ [][TraverseNext]_vars

\* The caller that keeps consuming: weak fairness of Anext, WF_vars(Anext),
\* with ENABLED <<Anext>>_vars written out.  Anext is enabled exactly while the
\* generator is pending, and it always changes the frame (Pending below).
Pending == gen.pc \in {"created", "suspended"}
SpecTraverseFair == SpecTraverse /\ ([]<>(~Pending) \/ []<><<Anext>>_vars)

\* ------------------------------------- the cache across calls on the proxy
\* Ids of the users the live-update layer reports.
MaxCached == 2

CachePayloads ==
    {Payload(t, s, Member("PrivacyLevel", "guild_only"), MaxCached, TRUE) :
        t \in {EntityType_voice, EntityType_external},
        s \in {EventStatus_scheduled, EventStatus_active}}
CacheAnswers == {None} \cup {Some(p) : p \in CachePayloads}
CacheEditArgs == UNION {ArgsOver(S) : S \in SUBSET {"channel", "location", "end_time"}}
CacheUsersArgs ==
    {a \in UsersArgs : /\ a.limit \in {None, Some(2)}
                       /\ a.before = None
                       /\ "oldest_first" \notin DOMAIN a}

\* The proxies the program holds: the receiver and, until the caller drops or
\* keeps it, the proxy the last edit returned.
Proxies ==
    {[via |-> "receiver", proxy |-> ev]}
    \cup (IF ret # None THEN {[via |-> "returned", proxy |-> ret[1]]} ELSE {})

Notified(op, error, via, id) ==
    Done(op, Outcome(error, None, <<>>, None, None)) @@ [via |-> via, user |-> id]

CacheInit ==
    /\ \E data \in CachePayloads : ev = init(1, data)
    /\ last = Idle
    /\ ret = None
    /\ caches = [r \in Refs |-> EmptyDict]
    /\ gen = NoGen
    /\ gen2 = NoGen
    /\ server = [mode |-> "cursor", count |-> MaxId, order |-> "desc"]

\* The live-update layer reports a new subscriber to one of the proxies.
AddUser ==
    \E p \in Proxies, id \in 1..MaxCached :
        /\ caches' = [caches EXCEPT ![p.proxy.users] = add_user(@, User(id))]
        /\ last' = Notified("_add_user", "none", p.via, id)
        /\ UNCHANGED <<ev, ret, gen, server, gen2>>

\* The live-update layer reports that a user unsubscribed.
PopUser ==
    \E p \in Proxies, id \in 1..MaxCached :
        LET popped == pop_user(caches[p.proxy.users], id)
        IN  /\ caches' = [caches EXCEPT ![p.proxy.users] = popped.cache]
            /\ last' = Notified("_pop_user", popped.error, p.via, id)
            /\ UNCHANGED <<ev, ret, gen, server, gen2>>

CacheNext ==
    \/ AddUser
    \/ PopUser
    \/ HydrateFrom(CachePayloads)
    \/ EditWith(CacheEditArgs, CacheAnswers)
    \/ StartWith(CacheAnswers)
    \/ EndWith(CacheAnswers)
    \/ CancelWith(CacheAnswers)
    \/ Delete
    \/ Drop
    \/ Keep
    \/ UsersWith(CacheUsersArgs)
    \/ Anext

SpecCache == CacheInit /\ [][CacheNext]_vars

\* ------------------------------------------ two traversals of one proxy
\* A second generator of the same proxy: every call of users() has its own
\* frame (its limit, state, reverse and predicate are locals of the call).
PairUsersArgs ==
    {a \in UsersArgs : /\ a.before # None
                       /\ a.after = None
                       /\ "oldest_first" \in DOMAIN a}

PairInit ==
    /\ \E count \in {0, MaxCached} :
          ev = init(1, Payload(EntityType_voice, EventStatus_active,
                               Member("PrivacyLevel", "guild_only"), count, TRUE))
    /\ last = Idle
    /\ ret = None
    /\ caches = [r \in Refs |-> EmptyDict]
    /\ gen = NoGen
    /\ gen2 = NoGen
    /\ server \in {srv \in CursorServers :
                      /\ srv.order = "desc"
                      /\ srv.count \in {MaxId, MaxPages * FullBatch + 5}}

Users2With(arguments) ==
    /\ gen2.pc \in {"none", "done", "closed"}
    /\ \E a \in arguments : gen2' = Created(a)
    /\ UNCHANGED <<ev, ret, last, caches, server, gen>>

Anext2_SharedState ==
    /\ gen2.pc \in {"created", "suspended"}
    /\ gen2' = anext(ev,
                     IF gen2.pc = "suspended" /\ gen.pc = "suspended"
                     THEN [gen2 EXCEPT !.state = gen.state, !.limit = gen.limit]
                     ELSE gen2,
                     server)
    /\ UNCHANGED <<ev, ret, last, caches, server, gen>>

Anext2 ==
    /\ gen2.pc \in {"created", "suspended"}
    /\ gen2' = anext(ev, gen2, server)
    /\ UNCHANGED <<ev, ret, last, caches, server, gen>>

PairNext ==
    \/ UsersWith(PairUsersArgs)
    \/ Anext
    \/ Users2With(PairUsersArgs)
    \/ Anext2
    \/ AddUser
    \/ PopUser

SpecPair == PairInit /\ [][PairNext]_vars

\* ================================================================ claims
Supplied(k) == last.args # None /\ k \in DOMAIN last.args[1]
Arg(k) == last.args[1][k]
Issued == Len(last.requests)
Populated(field) == field # Unset /\ field # None
ChannelBound(etype) == etype \in {EntityType_stage_instance, EntityType_voice}

\* The lifecycle of the data model: scheduled -> active -> completed,
\* scheduled -> cancelled.
LegalSuccessor(from, to) ==
    <<from.name, to.name>> \in
        {<<"scheduled", "active">>, <<"active", "completed">>, <<"scheduled", "cancelled">>}

\* The status a shorthand asks for.
Target(op) ==
    CASE op = "start" -> EventStatus_active
      [] op = "end" -> EventStatus_completed
      [] op = "cancel" -> EventStatus_cancelled

\* C1 (as claimed): start() on a scheduled proxy, end() on an active one and
\* cancel() on a scheduled one issue exactly one update request carrying the
\* target status, and when the transport answers a payload with that status
\* the call returns a proxy with that status.
C1_ShorthandsIssueOneRequest ==
    (/\ last.op \in {"start", "end", "cancel"}
     /\ LegalSuccessor(ev.status, Target(last.op)))
    => /\ Issued = 1
       /\ last.requests[1].payload["status"] = EnumValue(Target(last.op))
       /\ (last.data # None /\ last.data[1]["status"] = EnumValue(Target(last.op)))
          => (last.error = "none" /\ ret # None /\ ret[1].status = Target(last.op))

\* The effective entity type as C2 states it.
C2_Effective == IF Supplied("entity_type") THEN Arg("entity_type") ELSE ev.entity_type
\* (a) voice or stage, a non-null channel supplied, location not supplied
C2_CaseA ==
    /\ ChannelBound(C2_Effective)
    /\ Supplied("channel") /\ Arg("channel") # None
    /\ ~Supplied("location")
\* (b) external, a non-null location supplied, channel not supplied, end_time supplied
C2_CaseB ==
    /\ C2_Effective = EntityType_external
    /\ Supplied("location") /\ Arg("location") # None
    /\ ~Supplied("channel")
    /\ Supplied("end_time")
\* The enum arguments supplied are members of their enumerations.
C2_EnumsAreMembers ==
    /\ Supplied("privacy_level") => Arg("privacy_level") \in Members("PrivacyLevel")
    /\ Supplied("status") => Arg("status") \in Members("EventStatus")
    /\ Supplied("entity_type") => Arg("entity_type") \in Members("EntityType")
\* The arguments edit checks before the entity-type rules.
C2_WellFormed ==
    /\ Supplied("start_time") => Arg("start_time").tzinfo # None
    /\ C2_EnumsAreMembers

C5_ChannelXorLocation ==
    last.op \in {"__init__", "_update"}
    => /\ Populated(ev.channel_id) <=> ChannelBound(ev.entity_type)
       /\ Populated(ev.location) <=> ev.entity_type = EntityType_external
       /\ ev.entity_type = EntityType_external
          => ev.location = last.data[1]["entity_metadata"][1].location

\* C6 (as claimed): an edit in which start_time or end_time is supplied
\* without timezone information fails and issues no transport request.
C6_NaiveTimesRejected ==
    (/\ last.op = "edit"
     /\ \/ Supplied("start_time") /\ Arg("start_time").tzinfo = None
        \/ Supplied("end_time") /\ Arg("end_time").tzinfo = None)
    => (last.error # "none" /\ Issued = 0)

\* The payload field of each argument, and the value it must carry.
C7_Field ==
    [name |-> "name", description |-> "description", channel |-> "channel_id",
     start_time |-> "scheduled_start_time", end_time |-> "scheduled_end_time",
     privacy_level |-> "privacy_level", entity_type |-> "entity_type",
     status |-> "status", image |-> "image", location |-> "entity_metadata"]
C7_Carries(payload, k) ==
    CASE k \in {"name", "description"} -> payload[C7_Field[k]] = Arg(k)
      [] k \in {"start_time", "end_time"} ->
            payload[C7_Field[k]].iso = Arg(k).ts /\ payload[C7_Field[k]].offset = Arg(k).tzinfo
      [] k \in {"privacy_level", "entity_type", "status"} ->
            payload[C7_Field[k]] = EnumValues[Arg(k).cls][Arg(k).name]
      [] k = "channel" -> payload[C7_Field[k]] = Arg(k)[1].id
      [] k = "image" -> payload[C7_Field[k]][2] = Arg(k)
      [] k = "location" -> payload[C7_Field[k]] = [location |-> Arg(k)[1]]

\* C7 (as claimed): the payload handed to the transport has a field for each
\* supplied argument, with the supplied value, and none for an argument that
\* was not supplied; location appears only nested under the metadata key.
\* Read for the calls whose times are timezone-aware.
C7_TimesAreAware ==
    /\ Supplied("start_time") => Arg("start_time").tzinfo # None
    /\ Supplied("end_time") => Arg("end_time").tzinfo # None
C7_PayloadMirrorsArguments ==
    (last.op = "edit" /\ Issued = 1 /\ C7_TimesAreAware)
    => LET payload == last.requests[1].payload
       IN  /\ \A k \in ArgNames :
                 /\ Supplied(k) <=> C7_Field[k] \in DOMAIN payload
                 /\ Supplied(k) => C7_Carries(payload, k)
           /\ "location" \notin DOMAIN payload

\* C8 (as claimed, its clause on requests): over any sequence of hydrate,
\* edit, start, end and cancel, an update request is only issued with a
\* status that is a legal successor of the receiver's current status.
C8_RequestsAskLegalSuccessor ==
    \A i \in DOMAIN last.requests :
        (last.op # "delete" /\ "status" \in DOMAIN last.requests[i].payload)
        => LegalSuccessor(ev.status,
                          try_enum("EventStatus", last.requests[i].payload["status"]))

\* C8 (amended): start, end and cancel enter edit only with the legal
\* successor of the receiver's current status (scheduled -> active,
\* active -> completed, scheduled -> cancelled), and no edit, start, end,
\* cancel or delete changes the status of its receiver; the status argument
\* of edit and the statuses delivered by hydration or answered by the
\* transport are not checked against the lifecycle.
C8_ShorthandsAskLegalSuccessor ==
    [][/\ (last'.op \in {"start", "end", "cancel"} /\ last'.args # None)
          => /\ DOMAIN last'.args[1] = {"status"}
             /\ LegalSuccessor(ev.status, last'.args[1]["status"])
       /\ last'.op \in {"edit", "start", "end", "cancel", "delete"}
          => ev'.status = ev.status]_vars

\* C8 witness: end() on an active proxy reached edit, asking for completed.
C8_Witness ==
    /\ last.op = "end" /\ last.args # None
    /\ ev.status = EventStatus_active
    /\ Arg("status") = EventStatus_completed

\* C9: start() and cancel() on a proxy that is not scheduled, and end() on a
\* proxy that is not active, fail with the local invalid-state error
\* (ValueError) without entering edit and without a transport request.
C9_GuardsFailLocally ==
    (/\ last.op \in {"start", "end", "cancel"}
     /\ ev.status # (IF last.op = "end" THEN EventStatus_active ELSE EventStatus_scheduled))
    => /\ last.error = "ValueError"
       /\ last.args = None
       /\ Issued = 0
       /\ ret = None

\* C9 witness: start() on an active proxy was refused with ValueError.
C9_Witness ==
    /\ last.op = "start" /\ ev.status = EventStatus_active
    /\ last.error = "ValueError"

\* ------------------------------------------------------ claims on users()
Started == gen.pc \in {"running", "suspended", "done"}
YieldedIds == {gen.yielded[i].id : i \in DOMAIN gen.yielded}

\* C3 (as claimed): whatever the transport returns, a backward traversal
\* started with before=B never yields a user whose id is >= B's id, and a
\* forward traversal started with after=A never yields one whose id is <= A's.
C3_OwnBoundaryFiltered ==
    Started
    => /\ (~gen.reverse /\ gen.before # None)
          => \A id \in YieldedIds : id < gen.before[1].id
       /\ (gen.reverse /\ gen.after # None)
          => \A id \in YieldedIds : id > gen.after[1].id

\* C3 (amended): whatever the transport returns, a forward traversal started
\* with before=B never yields a user whose id is >= B's id, and a backward
\* traversal started with after=A, A other than OLDEST_OBJECT, never yields
\* one whose id is <= A's id; the boundary of the traversal's own direction
\* is only sent to the transport as its cursor.
C3_OppositeBoundaryFiltered ==
    Started
    => /\ (gen.reverse /\ gen.before # None)
          => \A id \in YieldedIds : id < gen.before[1].id
       /\ (~gen.reverse /\ gen.after # None /\ gen.after[1] # OLDEST_OBJECT)
          => \A id \in YieldedIds : id > gen.after[1].id

\* C3 witness: a backward traversal with after=1 was served the record 1
\* and a later one, and yielded only the later one.
C3_Witness ==
    /\ gen.pc = "done" /\ ~gen.reverse /\ gen.after = Some(Object(1))
    /\ \E i \in DOMAIN server.batches[1] : server.batches[1][i] = Record(1)
    /\ YieldedIds # {}

\* The transport of C4: k batches of exactly 100 records, then a short one.
C4_Paged ==
    /\ Len(server.batches) >= 1
    /\ \A j \in 1..(Len(server.batches) - 1) : Len(server.batches[j]) = FullBatch
    /\ Len(server.batches[Len(server.batches)]) < FullBatch
C4_Pages == Len(server.batches) - 1
RECURSIVE C4_Total(_)
C4_Total(j) == IF j = 0 THEN 0 ELSE Len(server.batches[j]) + C4_Total(j - 1)
\* every record of every batch was yielded, k+1 requests were issued
C4_Complete ==
    /\ Len(gen.yielded) = C4_Total(Len(server.batches))
    /\ \A j \in DOMAIN server.batches : \A i \in DOMAIN server.batches[j] :
          server.batches[j][i].user.id \in YieldedIds
    /\ Len(gen.requests) = C4_Pages + 1

\* C4 (as claimed): for every state of the proxy, a fully consumed
\* users(limit=None) traversal of k full batches and a short one yields every
\* record and issues exactly k+1 requests.  Read for the traversals no
\* boundary filter applies to.
C4_PagedTraversalComplete ==
    (/\ gen.pc = "done" /\ gen.args.limit = None /\ gen.predicate = "none"
     /\ C4_Paged)
    => C4_Complete

\* C4 (amended): for a proxy whose user_count is 0 or more than 100 * k, a
\* fully consumed users(limit=None) traversal to which no boundary filter
\* applies, against a transport that returns k batches of exactly 100 records
\* followed by one batch of fewer than 100, yields every record of all k+1
\* batches and issues exactly k+1 transport requests, none after the short
\* batch.
C4_PagedTraversalCompleteWhenUnbounded ==
    (/\ gen.pc = "done" /\ gen.args.limit = None /\ gen.predicate = "none"
     /\ C4_Paged
     /\ (ev.user_count = 0 \/ ev.user_count > FullBatch * C4_Pages))
    => C4_Complete

\* C4 witness: two full batches and a short one were consumed to the end.
C4_Witness ==
    /\ gen.pc = "done" /\ gen.args.limit = None /\ gen.predicate = "none"
    /\ C4_Paged /\ C4_Pages = 2 /\ ev.user_count = 0
    /\ Len(gen.requests) = 3 /\ Len(gen.yielded) > 2 * FullBatch

\* C10: a traversal is forward iff oldest_first is true, or oldest_first is
\* unspecified and an after cursor was supplied; every request of a forward
\* traversal carries only an after cursor, every request of a backward
\* traversal only a before cursor.
C10_Forward ==
    \/ "oldest_first" \in DOMAIN gen.args /\ gen.args["oldest_first"]
    \/ "oldest_first" \notin DOMAIN gen.args /\ gen.args.after # None
C10_DirectionAndCursor ==
    Started
    => \A i \in DOMAIN gen.requests :
          IF C10_Forward
          THEN "after" \in DOMAIN gen.requests[i] /\ "before" \notin DOMAIN gen.requests[i]
          ELSE "before" \in DOMAIN gen.requests[i] /\ "after" \notin DOMAIN gen.requests[i]

\* C10 witness: oldest_first=False overrode a supplied after cursor, and the
\* request carried the before cursor.
C10_Witness ==
    /\ gen.pc = "done"
    /\ "oldest_first" \in DOMAIN gen.args /\ ~gen.args["oldest_first"]
    /\ gen.args.after # None /\ gen.args.before # None
    /\ Len(gen.requests) = 1
    /\ gen.requests[1]["before"] = Some(gen.args.before[1].id)

\* ------------------------------------------------- users(): request sizes
\* The limit a traversal works under, read off the call and the receiver.
C11_Limit ==
    IF gen.args.limit # None THEN gen.args.limit
    ELSE IF ev.user_count # 0 THEN Some(ev.user_count) ELSE None

C11_Batch(i) == Fetch(server, i, gen.requests[i])

RECURSIVE C11_Received(_)
C11_Received(j) == IF j = 0 THEN 0 ELSE Len(C11_Batch(j)) + C11_Received(j - 1)

C11_TransportObeysLimit ==
    \A i \in DOMAIN gen.requests : Len(C11_Batch(i)) <= gen.requests[i].limit

\* C11: when the transport never returns more records than it was asked for,
\* every request of a traversal asks for between 1 and 100 records and for no
\* more than what is left of the effective limit, the traversal yields no more
\* users than the effective limit, and an effective limit of 0 issues no
\* request.
C11_RequestsWithinLimit ==
    (Started /\ C11_TransportObeysLimit) =>
        /\ \A i \in DOMAIN gen.requests :
              /\ gen.requests[i].limit \in 1..MaxRetrieve
              /\ C11_Limit # None =>
                    gen.requests[i].limit <= C11_Limit[1] - C11_Received(i - 1)
        /\ C11_Limit # None => Len(gen.yielded) <= C11_Limit[1]
        /\ C11_Limit = Some(0) => gen.requests = <<>>

\* A traversal limited to 101 users ended after a request for 100 and a
\* request for the one user still allowed.
C11_Witness ==
    /\ gen.pc = "done"
    /\ C11_Limit = Some(101)
    /\ Len(gen.requests) = 2
    /\ gen.requests[2].limit = 1
    /\ Len(gen.yielded) = 101

\* --------------------------------------------------- the cache of an edit
\* What a proxy's cache shows.
CacheOf(proxy) == caches[proxy.users]

\* C12: the proxy a successful edit returns reads and writes the very mapping
\* of the receiver: as long as both proxies are held they show the same
\* cache, a user added through either is found through both, and a user
\* removed through either is gone from both.
C12_EditSharesCache ==
    ret # None =>
        /\ ret[1].users = ev.users
        /\ CacheOf(ret[1]) = CacheOf(ev)
        /\ last.op = "_add_user" =>
              \A p \in Proxies :
                  /\ last.user \in DOMAIN CacheOf(p.proxy)
                  /\ CacheOf(p.proxy)[last.user] = User(last.user)
        /\ (last.op = "_pop_user" /\ last.error = "none") =>
              \A p \in Proxies : last.user \notin DOMAIN CacheOf(p.proxy)

\* A user was added through the returned proxy of an edit and is found
\* through the receiver.
C12_Witness ==
    /\ ret # None
    /\ last.op = "_add_user"
    /\ last.via = "returned"
    /\ last.user \in DOMAIN CacheOf(ev)

\* -------------------------------------------------------- failing calls
Calls == {"edit", "start", "end", "cancel", "delete"}
LocalErrors == {"ValueError", "TypeError"}

\* C13: a call of edit, start, end, cancel or delete that raises, for a local
\* validation failure or for a transport error, returns no proxy and leaves
\* every field of the receiver and the receiver's cache as they were; when the
\* failure is a local validation failure no request has gone to the
\* transport.
C13_FailedCallChangesNothing ==
    [][(last.op = "idle" /\ last'.op \in Calls /\ last'.error # "none") =>
          /\ ev' = ev
          /\ caches' = caches
          /\ ret' = None
          /\ last'.error \in LocalErrors => last'.requests = <<>>]_vars

\* The transport failed an edit on a proxy whose cache holds a user.
C13_Witness ==
    /\ last.op = "edit"
    /\ last.error = "HTTPException"
    /\ Len(last.requests) = 1
    /\ DOMAIN CacheOf(ev) # {}

\* ---------------------------------------------------- users(): laziness
\* C14: calling users() issues no request; a step issues a request only when
\* it is the caller asking the generator for an element, and then only once
\* every record that survived the previous batch has been handed out; a
\* generator its caller gave up issues no request any more.
C14_RequestsOnlyOnDemand ==
    [][/\ gen'.pc = "created" => Requests(gen') = <<>>
       /\ (gen'.pc # "created" /\ Requests(gen') # Requests(gen)) =>
             /\ gen.pc \in {"created", "suspended"}
             /\ gen'.pc \in {"suspended", "done"}
             /\ gen.pc = "suspended" => gen.data = <<>>
       /\ gen.pc = "closed" => gen'.pc = "created"]_vars

\* The second batch was requested: its first record is the 101st user the
\* caller received.
C14_Witness ==
    /\ gen.pc = "suspended"
    /\ Len(gen.requests) = 2
    /\ Len(gen.yielded) = FullBatch + 1
    /\ gen.data # <<>>

\* ------------------------------------------------- who writes the cache
Notifications == {"_add_user", "_pop_user"}

\* C15: the content of a cache changes only in a step that is an _add_user
\* or a _pop_user notification, and then by that one user; hydrating again,
\* a traversal of users(), and edit, start, end, cancel and delete, whether
\* they fail or succeed, leave every cache as it was.
C15_OnlyNotificationsWriteCache ==
    [][caches' # caches =>
          /\ last'.op \in Notifications
          /\ UNCHANGED <<ev, ret, gen>>
          /\ \E r \in Refs :
                /\ \A q \in Refs \ {r} : caches'[q] = caches[q]
                /\ \/ caches'[r] = add_user(caches[r], User(last'.user))
                   \/ caches'[r] = pop_user(caches[r], last'.user).cache]_vars

\* A traversal has handed out a user the cache does not hold, while the cache
\* holds another one.
C15_Witness ==
    /\ gen.pc \in {"suspended", "done"}
    /\ DOMAIN CacheOf(ev) # {}
    /\ \E i \in DOMAIN gen.yielded : gen.yielded[i].id \notin DOMAIN CacheOf(ev)

\* ------------------------------------------- users(): order inside a batch
\* The direction the caller asked for: forward is oldest first.
C16_Forward ==
    IF "oldest_first" \in DOMAIN gen.args THEN gen.args["oldest_first"]
    ELSE gen.args.after # None

C16_Backwards(seq) == [i \in 1..Len(seq) |-> seq[Len(seq) - i + 1]]
C16_Users(seq) == [i \in 1..Len(seq) |-> store_user(seq[i].user)]

\* What the caller is to receive from the first j batches when the batches of
\* a forward traversal are turned round exactly if `forward`, and those of a
\* backward traversal exactly if `backward`.
RECURSIVE C16_Output(_, _, _)
C16_Output(j, forward, backward) ==
    IF j = 0 THEN <<>>
    ELSE LET batch == Fetch(server, j, gen.requests[j])
             turned == IF (C16_Forward /\ forward) \/ (~C16_Forward /\ backward)
                       THEN C16_Backwards(batch) ELSE batch
         IN  C16_Output(j - 1, forward, backward)
             \o C16_Users(SelectSeq(turned, LAMBDA u : Keeps(gen, u)))

C16_Follows(forward, backward) ==
    (gen.pc \in {"suspended", "done"}) =>
        gen.yielded \o C16_Users(gen.data)
            = C16_Output(Len(gen.requests), forward, backward)

\* C16 as stated: the batches of a backward traversal are reversed before
\* they are yielded, those of a forward traversal are yielded in the order of
\* the transport.
C16_BackwardBatchesReversed == C16_Follows(FALSE, TRUE)

\* C16: the batches of a forward traversal are reversed before their records
\* are yielded, and the batches of a backward traversal are yielded in the
\* order the transport returned them.
C16_ForwardBatchesReversed == C16_Follows(TRUE, FALSE)

\* A forward traversal received the batch 1, 2 and handed out 2, then 1.
C16_Witness ==
    /\ gen.pc = "done"
    /\ C16_Forward
    /\ Len(gen.requests) = 1
    /\ Fetch(server, 1, gen.requests[1]) = <<Record(1), Record(2)>>
    /\ gen.yielded = <<User(2), User(1)>>

\* ------------------------------------------------- users(): the cursor
C17_Forward ==
    IF "oldest_first" \in DOMAIN gen.args THEN gen.args["oldest_first"]
    ELSE gen.args.after # None

C17_Batch(i) == Fetch(server, i, gen.requests[i])
C17_Ids(seq) == {seq[i].user.id : i \in DOMAIN seq}
C17_Cursor(request) == IF C17_Forward THEN request.after ELSE request.before

\* The record of a batch the next cursor is taken from.
C17_Pick(batch) == IF C17_Forward THEN batch[1] ELSE batch[Len(batch)]

\* The transport puts the record farthest along the traversal there: the
\* oldest of a backward batch, the newest of a forward batch.
C17_FarthestAtPick ==
    \A i \in DOMAIN gen.requests :
        LET batch == C17_Batch(i)
        IN  batch # <<>> =>
                \A id \in C17_Ids(batch) :
                    IF C17_Forward THEN id <= C17_Pick(batch).user.id
                    ELSE id >= C17_Pick(batch).user.id

C17_Unbounded == gen.args.limit = None /\ ev.user_count = 0

C17_Inside(id) ==
    /\ gen.args.before # None => id < gen.args.before[1].id
    /\ gen.args.after # None => id > gen.args.after[1].id

\* C17: after a non-empty batch the next request carries as its cursor the
\* id of that batch's last record (backward) or first record (forward); when
\* the transport honours exclusive cursors over a fixed subscriber set and
\* puts the farthest record there, the batches of a traversal are pairwise
\* disjoint, no user is yielded twice, and a finished unbounded traversal has
\* yielded exactly the subscribers inside the boundaries.
C17_CursorCoversOnce ==
    (gen.pc \in {"suspended", "done"}) =>
        /\ \A i \in DOMAIN gen.requests :
              (i > 1 /\ C17_Batch(i - 1) # <<>>) =>
                  C17_Cursor(gen.requests[i]) = Some(C17_Pick(C17_Batch(i - 1)).user.id)
        /\ C17_FarthestAtPick =>
              /\ \A i \in DOMAIN gen.requests :
                    \A j \in 1..(i - 1) :
                        C17_Ids(C17_Batch(i)) \cap C17_Ids(C17_Batch(j)) = {}
              /\ Cardinality({gen.yielded[i].id : i \in DOMAIN gen.yielded})
                    = Len(gen.yielded)
              /\ (gen.pc = "done" /\ C17_Unbounded) =>
                    {gen.yielded[i].id : i \in DOMAIN gen.yielded}
                        = {id \in 1..server.count : C17_Inside(id)}

\* An unbounded backward traversal fetched three batches and handed out every
\* subscriber above its lower boundary.
C17_Witness ==
    /\ gen.pc = "done"
    /\ C17_Unbounded
    /\ ~C17_Forward
    /\ gen.args.after = Some(Object(1))
    /\ C17_FarthestAtPick
    /\ Len(gen.requests) = 3
    /\ Len(gen.yielded) = server.count - 1

\* ------------------------------------------------- users(): termination
C18_Forward ==
    IF "oldest_first" \in DOMAIN gen.args THEN gen.args["oldest_first"]
    ELSE gen.args.after # None

C18_Cursor(i) == IF C18_Forward THEN gen.requests[i].after ELSE gen.requests[i].before

\* Every request but the last was answered with a full batch, and each
\* request asks strictly beyond the cursor of the one before it: the cursors
\* are ids of the finite subscriber set, so the requests run out.
C18_CursorsAdvance ==
    \A i \in DOMAIN Requests(gen) :
        i > 1 =>
            /\ C18_Cursor(i) # None
            /\ C18_Cursor(i)[1] \in 1..server.count
            /\ C18_Cursor(i - 1) # None =>
                  IF C18_Forward THEN C18_Cursor(i)[1] > C18_Cursor(i - 1)[1]
                  ELSE C18_Cursor(i)[1] < C18_Cursor(i - 1)[1]

\* C18: over a finite subscriber set and a transport that honours exclusive
\* cursors and answers every request, a traversal whose caller keeps asking
\* for the next element comes to its end, whatever limit, direction, before
\* and after it was called with: its cursors move strictly along the
\* subscriber ids, and every pending traversal is eventually finished.
C18_Terminates ==
    /\ [](Pending => anext(ev, gen, server) # gen)
    /\ [](gen.pc \in {"suspended", "done", "closed"} => C18_CursorsAdvance)
    /\ Pending ~> (gen.pc \in {"done", "closed"})

\* An unbounded forward traversal of an oldest-first transport came to its
\* end after more requests than there are full batches of subscribers.
C18_Witness ==
    /\ gen.pc = "done"
    /\ C18_Forward
    /\ server.order = "asc"
    /\ Len(gen.requests) = 3
    /\ Len(gen.yielded) > server.count

\* ------------------------------------------------ hydration: privacy level
\* C19: after __init__ or _update the proxy's privacy_level is the member of
\* PrivacyLevel the payload's privacy_level names, whatever the payload's
\* status is.
C19_PrivacyLevelFromPayload ==
    (last.op \in {"__init__", "_update"}) =>
        ev.privacy_level = try_enum("PrivacyLevel", last.data[1]["privacy_level"])

\* ------------------------------------------------ notifications never fail
\* C20: every _add_user and every _pop_user notification completes without
\* an error, the removal of a user the cache does not hold included; after it
\* the cache holds the added user under its own id, or no longer holds the
\* removed one, and the receiver's fields are what they were.
C20_NotificationsComplete ==
    [][(last' # last /\ last'.op \in Notifications) =>
          /\ last'.error = "none"
          /\ ev' = ev
          /\ \A p \in Proxies :
                IF last'.op = "_add_user"
                THEN /\ last'.user \in DOMAIN caches'[p.proxy.users]
                     /\ caches'[p.proxy.users][last'.user] = User(last'.user)
                ELSE last'.user \notin DOMAIN caches'[p.proxy.users]]_vars

\* ------------------------------------------- users(): traversals in pairs
\* The traversal of the same call when nothing else runs: the generator is
\* consumed to its end in one go.
RECURSIVE C21_Alone(_)
C21_Alone(g) == IF g.pc = "done" THEN g ELSE C21_Alone(anext(ev, g, server))

C21_Prefix(p, q) == Len(p) <= Len(q) /\ p = SubSeq(q, 1, Len(p))

C21_AsAlone(g) ==
    (g.pc \in {"suspended", "done"}) =>
        LET alone == C21_Alone(Created(g.args))
        IN  /\ C21_Prefix(g.requests, alone.requests)
            /\ C21_Prefix(g.yielded, alone.yielded)
            /\ g.pc = "done" =>
                  g.requests = alone.requests /\ g.yielded = alone.yielded

====
